---------------------------- MODULE Spec2Model ----------------------------
(***************************************************************************)
(* Model of src/main.py: the gktoday current-affairs pipeline.             *)
(*                                                                         *)
(*   SpecAssemble  insert_content_between_placeholders applied to a        *)
(*                 template document and a content list drawn from bounded *)
(*                 sets.                                                   *)
(*   Spec          main(): discovery, dedup filter, extraction, assembly,  *)
(*                 render and publish, over several runs that share the    *)
(*                 dedup store.                                            *)
(*                                                                         *)
(* A text is a sequence of tokens; Python's `needle in text` is "the token *)
(* occurs in the sequence".  Sequences are 1-based here, 0-based in the    *)
(* source; None is 0.                                                      *)
(***************************************************************************)
EXTENDS Integers, Sequences, FiniteSets, TLC

VARIABLES
    \* ---- insert_content_between_placeholders
    template,       \* doc.paragraphs when the assembler is called
    doc,            \* doc.paragraphs now
    styles,         \* names of the paragraph styles the template defines
    content_list,   \* the blocks handed to the assembler
    ret,            \* "pending" | "returned" | "raised"
    \* ---- the process: module level code, then main()
    env,            \* names of the environment variables that are set
    pc,             \* where the process is
    error,          \* the exception that ended the process, "none" if none
    collection,     \* the dedup store: the URLs of its records
    page,           \* fetch_article_urls: the page the loop is at
    article_urls,   \* fetch_article_urls: article_urls
    idx,            \* index of the URL the current loop is at
    new_urls,       \* check_and_insert_urls: new_urls
    all_content,    \* main: all_content
    english_titles, \* main: english_titles
    attempts,       \* send_pdf_to_telegram: iterations of the loop so far
    run,            \* number of this run of the script
    \* ---- what the process has done to the world in this run (history)
    served,         \* what each listing page requested so far gave: whether the
                    \* request and the parse worked, and the links found
    recorded,       \* URLs insert_one has stored
    seen_at_call,   \* the store when check_and_insert_urls was called
    store_error,    \* URLs at which the store raised
    extracted,      \* URLs scrape_and_get_content was called with
    rendered,       \* the PDF has been produced
    delivered,      \* the document has reached the channel
    cleaned         \* the temporary files have been unlinked

avars == <<template, doc, styles, content_list, ret>>

pvars == <<env, pc, error, collection, page, article_urls, idx, new_urls,
           all_content, english_titles, attempts, run, served, recorded,
           seen_at_call, store_error, extracted, rendered, delivered, cleaned>>

vars == <<avars, pvars>>

\* ---------------------------------------------------------------- bounds
MaxParas  == 4      \* paragraphs in a template
MaxBlocks == 2      \* blocks in a content list (SpecAssemble)
MaxRuns   == 2      \* runs of the script against the same store

\* ------------------------------------------------------ program constants
Pages        == 3   \* main: fetch_article_urls(base_url, 3)
SendAttempts == 3   \* send_pdf_to_telegram: for _ in range(3)

None == 0

\* ------------------------------------------------------------- documents
\* A paragraph: its text, its style name ("" when it carries none) and elem,
\* the identity of its XML element: <<"template", i, 0>> for the i-th
\* paragraph of the template, <<"block", k, a>> for the paragraph the a-th
\* add_paragraph/add_heading call for content_list[k] created.
Para(text, style, elem) == [text |-> text, style |-> style, elem |-> elem]

START == <<"START_CONTENT">>
END   == <<"END_CONTENT">>

HasStart(text) == \E i \in DOMAIN text : text[i] = "START_CONTENT"
HasEnd(text)   == \E i \in DOMAIN text : text[i] = "END_CONTENT"

AllStyles == {"Normal", "Heading 1", "Heading 2", "Heading 4", "List Bullet"}

\* The paragraphs a template of the model is made of.
TemplateParas ==
    { [text |-> START, style |-> "Normal"],
      [text |-> END, style |-> "Normal"],
      [text |-> <<"OLD">>, style |-> "Title"],
      [text |-> <<"START_CONTENT", "END_CONTENT">>, style |-> "Normal"] }

\* Document(template_bytes).paragraphs: every paragraph is its own element.
Document(ps) == [i \in 1..Len(ps) |-> Para(ps[i].text, ps[i].style, <<"template", i, 0>>)]

\* The style sets a template of the model may define.
StyleSets == { AllStyles, AllStyles \ {"List Bullet"}, AllStyles \ {"Heading 2"} }

Block(type, text) == [type |-> type, text |-> text]

\* One block of each type scrape_and_get_content produces.
Blocks ==
    { Block("heading",   <<"T">>),
      Block("paragraph", <<"P1">>),
      Block("heading_2", <<"S">>),
      Block("heading_4", <<"M">>),
      Block("list_item", <<"*", "L">>) }

SeqsUpTo(S, n) == UNION { [1..k -> S] : k \in 0..n }

Max(S) == CHOOSE x \in S : \A y \in S : y <= x

\* The scan without its break: the last paragraph of each kind wins.
ScanWithoutBreak(paras, i, start) ==
    LET S == { j \in i..Len(paras) : HasStart(paras[j].text) }
        E == { j \in i..Len(paras) : ~HasStart(paras[j].text) /\ HasEnd(paras[j].text) }
    IN  [start |-> IF S = {} THEN start ELSE Max(S),
         end   |-> IF E = {} THEN None ELSE Max(E)]

\* ---- the loop of lines 105-110
RECURSIVE ScanPlaceholders(_, _, _)
ScanPlaceholders(paras, i, start) ==
    IF i > Len(paras) THEN [start |-> start, end |-> None]
    ELSE IF HasStart(paras[i].text) THEN ScanPlaceholders(paras, i + 1, i)
    ELSE IF HasEnd(paras[i].text) THEN [start |-> start, end |-> i]
    ELSE ScanPlaceholders(paras, i + 1, start)

RemoveAt(paras, i) ==
    SubSeq(paras, 1, i - 1) \o SubSeq(paras, i + 1, Len(paras))

\* ---- the loop of lines 115-117: i from end-1 down to start+1
RECURSIVE RemoveBetween(_, _, _)
RemoveBetween(paras, i, start) ==
    IF i <= start THEN paras
    ELSE RemoveBetween(RemoveAt(paras, i), i - 1, start)

\* content_list[::-1]
Reverse(s) == [i \in 1..Len(s) |-> s[Len(s) + 1 - i]]

\* The blocks of content_list, each with its index k in the list (carried
\* along only to name the element created for it).
Indexed(content) ==
    [k \in 1..Len(content) |->
        [type |-> content[k].type, text |-> content[k].text, k |-> k]]

\* doc.add_paragraph(text, style) / doc.add_heading(text, level): python-docx
\* appends the paragraph with its text to the body and only then resolves the
\* style name, raising KeyError when the template does not define it.
AddParagraph(paras, text, style, defined, elem) ==
    IF style \in defined
    THEN [doc |-> Append(paras, Para(text, style, elem)), ok |-> TRUE]
    ELSE [doc |-> Append(paras, Para(text, "", elem)), ok |-> FALSE]

\* anchor._element.addnext(new._element): the paragraph just appended is moved
\* to right after the paragraph at index start.
AddNext(paras, start) ==
    SubSeq(paras, 1, start) \o <<paras[Len(paras)]>>
        \o SubSeq(paras, start + 1, Len(paras) - 1)

StyleOf(type) ==
    CASE type = "heading"   -> "Heading 1"
      [] type = "paragraph" -> "Normal"
      [] type = "heading_2" -> "Heading 2"
      [] type = "heading_4" -> "Heading 4"
      [] type = "list_item" -> "List Bullet"

\* ---- one iteration of the loop of lines 121-135
InsertBlock(paras, start, content, defined) ==
    LET first == AddParagraph(paras, content.text, StyleOf(content.type), defined,
                              <<"block", content.k, 1>>)
    IN  IF first.ok THEN [doc |-> AddNext(first.doc, start), ok |-> TRUE]
        ELSE IF content.type = "list_item"
        THEN LET second == AddParagraph(first.doc, content.text, "Normal", defined,
                                        <<"block", content.k, 2>>)
             IN  IF second.ok
                 THEN [doc |-> AddNext(second.doc, start), ok |-> TRUE]
                 ELSE second
        ELSE first

RECURSIVE InsertBlocks(_, _, _, _)
InsertBlocks(paras, start, reversed, defined) ==
    IF reversed = <<>> THEN [doc |-> paras, ok |-> TRUE]
    ELSE LET r == InsertBlock(paras, start, Head(reversed), defined)
         IN  IF r.ok THEN InsertBlocks(r.doc, start, Tail(reversed), defined)
             ELSE r

ClearText(paras, i) == [paras EXCEPT ![i].text = <<>>]

\* ---- lines 137-138; the second index may lie past the end (IndexError)
ClearPlaceholders(paras, start, end) ==
    LET a == ClearText(paras, start)
    IN  IF end > Len(a) THEN [doc |-> a, ok |-> FALSE]
        ELSE [doc |-> ClearText(a, end), ok |-> TRUE]

\* ---- insert_content_between_placeholders: the document it leaves and
\* whether it returned (ok) or raised
InsertContent(paras, content, defined) ==
    LET ph == ScanPlaceholders(paras, 1, None)
    IN  IF ph.start = None \/ ph.end = None THEN [doc |-> paras, ok |-> FALSE]
        ELSE LET cut == RemoveBetween(paras, ph.end - 1, ph.start)
                 ins == InsertBlocks(cut, ph.start, Reverse(Indexed(content)), defined)
             IN  IF ins.ok THEN ClearPlaceholders(ins.doc, ph.start, ph.end)
                 ELSE ins

\* ------------------------------------------------------- SpecAssemble
\* The process before its first statement, with an empty store.
Idle ==
    /\ pc = "import" /\ error = "none" /\ collection = {} /\ page = 1
    /\ article_urls = <<>> /\ idx = 1 /\ new_urls = <<>> /\ all_content = <<>>
    /\ english_titles = <<>> /\ attempts = 0 /\ run = 1 /\ served = <<>>
    /\ recorded = {}
    /\ seen_at_call = {} /\ store_error = {} /\ extracted = <<>>
    /\ rendered = FALSE /\ delivered = FALSE /\ cleaned = FALSE

AInit ==
    /\ template \in { Document(ps) : ps \in SeqsUpTo(TemplateParas, MaxParas) }
    /\ doc = template
    /\ styles \in StyleSets
    /\ content_list \in SeqsUpTo(Blocks, MaxBlocks)
    /\ ret = "pending"
    /\ env = {}
    /\ Idle

InsertReturns ==
    /\ ret = "pending"
    /\ LET r == InsertContent(doc, content_list, styles)
       IN  /\ r.ok
           /\ doc' = r.doc
    /\ ret' = "returned"
    /\ UNCHANGED <<template, styles, content_list, pvars>>

InsertRaises ==
    /\ ret = "pending"
    /\ LET r == InsertContent(doc, content_list, styles)
       IN  /\ ~r.ok
           /\ doc' = r.doc
    /\ ret' = "raised"
    /\ UNCHANGED <<template, styles, content_list, pvars>>

ANext == InsertReturns \/ InsertRaises

SpecAssemble == AInit /\ [][ANext]_vars

\* ------------------------------------------------------------ the process
DbSettings == {"DB_NAME", "COLLECTION_NAME", "MONGO_CONNECTION_STRING"}
Settings ==
    DbSettings \cup {"TEMPLATE_URL", "TELEGRAM_BOT_TOKEN", "TELEGRAM_CHANNEL_ID"}

\* The links (h1#list > a[href]) a listing page of the model may hold, in
\* document order.
ListingLinks ==
    { <<>>, << <<"a1">> >>, << <<"a2">> >>,
      << <<"daily-current-affairs-quiz", "q1">> >>, << <<"a1">>, <<"a2">> >> }

\* 'daily-current-affairs-quiz' in url
IsQuiz(url) == \E j \in DOMAIN url : url[j] = "daily-current-affairs-quiz"

\* A store that never finds anything.
FindNothing(coll, url) == FALSE

\* collection.find_one({'url': url}), when it does not raise
FindOne(coll, url) == url \in coll

\* collection.insert_one({'url': url}), when it does not raise
InsertOne(coll, url) == coll \cup {url}

\* ---- article pages: whether the fetch worked, whether the main-content div
\* is there, the h1#list inside it (<<>> when absent) and the div's direct
\* children
Tag(name, class, text, items) ==
    [name |-> name, class |-> class, text |-> text, items |-> items]

ShareButtons ==
    <<"sharethis-inline-share-buttons", "st-center", "st-has-labels",
      "st-inline-share-buttons", "st-animated">>

ExcludedClasses == { ShareButtons, <<"prenext">> }

ArticlePages ==
    { [fetch |-> "error", main |-> FALSE, heading |-> <<>>, children |-> <<>>],
      [fetch |-> "ok", main |-> FALSE, heading |-> <<>>, children |-> <<>>],
      [fetch |-> "ok", main |-> TRUE, heading |-> <<>>,
       children |-> <<Tag("p", <<>>, <<"P1">>, <<>>)>>],
      [fetch |-> "ok", main |-> TRUE, heading |-> << <<"T">> >>,
       children |-> <<Tag("h1", <<>>, <<"T">>, <<>>),
                      Tag("p", <<>>, <<"P1">>, <<>>),
                      Tag("div", <<"prenext">>, <<"next">>, <<>>)>>],
      [fetch |-> "ok", main |-> TRUE, heading |-> << <<"U">> >>,
       children |-> <<Tag("div", ShareButtons, <<>>, <<>>),
                      Tag("ul", <<>>, <<"L">>, << <<"L">> >>)>>] }

\* ---- one iteration of the loop of lines 83-96
TagBlocks(tag) ==
    IF tag.class \in ExcludedClasses THEN <<>>
    ELSE CASE tag.name = "p"  -> <<Block("paragraph", tag.text)>>
           [] tag.name = "h2" -> <<Block("heading_2", tag.text)>>
           [] tag.name = "h4" -> <<Block("heading_4", tag.text)>>
           [] tag.name = "ul" ->
                [j \in 1..Len(tag.items) |->
                    Block("list_item", <<"*">> \o tag.items[j])]
           [] OTHER -> <<>>

RECURSIVE ChildBlocks(_)
ChildBlocks(tags) ==
    IF tags = <<>> THEN <<>>
    ELSE TagBlocks(Head(tags)) \o ChildBlocks(Tail(tags))

\* ---- scrape_and_get_content: the list it returns; every exception is caught
ScrapeAndGetContent(pg) ==
    IF pg.fetch = "error" \/ ~pg.main \/ pg.heading = <<>> THEN <<>>
    ELSE <<Block("heading", pg.heading[1])>> \o ChildBlocks(pg.children)

\* The templates TEMPLATE_URL may serve in the model.
Old == [text |-> <<"OLD">>, style |-> "Title"]
Sentinel(text) == [text |-> text, style |-> "Normal"]
Templates ==
    { [paragraphs |-> Document(<<Old, Sentinel(START), Old, Sentinel(END), Old>>),
       styles |-> AllStyles],
      [paragraphs |-> Document(<<Sentinel(START), Sentinel(END)>>),
       styles |-> AllStyles \ {"List Bullet"}],
      [paragraphs |-> Document(<<Sentinel(START), Old>>),
       styles |-> AllStyles] }

hist == <<served, recorded, seen_at_call, store_error, extracted, rendered,
          delivered, cleaned>>

Init ==
    /\ env \in SUBSET Settings
    /\ template = <<>> /\ doc = <<>> /\ styles = {} /\ content_list = <<>>
    /\ ret = "pending"
    /\ Idle

\* ---- lines 38-48: the module level store setup
ImportModule ==
    /\ pc = "import"
    /\ IF DbSettings \subseteq env
       THEN pc' = "fetch" /\ error' = error
       ELSE pc' = "done" /\ error' = "ValueError: MongoDB environment"
    /\ UNCHANGED <<avars, env, collection, page, article_urls, idx, new_urls,
                   all_content, english_titles, attempts, run, hist>>

\* ---- fetch_article_urls, one iteration of the loop of lines 54-61; an
\* exception leaves the loop (lines 62-64) and main calls
\* check_and_insert_urls
FetchPage ==
    /\ pc = "fetch"
    /\ page <= Pages
    /\ \/ /\ served' = Append(served, [ok |-> FALSE, links |-> <<>>])
          /\ pc' = "dedup"
          /\ UNCHANGED <<page, article_urls>>
       \/ \E links \in ListingLinks :
              /\ served' = Append(served, [ok |-> TRUE, links |-> links])
              /\ article_urls' = article_urls \o links
              /\ page' = page + 1
              /\ pc' = IF page = Pages THEN "dedup" ELSE "fetch"
    /\ seen_at_call' = collection
    /\ idx' = 1
    /\ UNCHANGED <<avars, env, error, collection, new_urls, all_content,
                   english_titles, attempts, run, recorded, store_error,
                   extracted, rendered, delivered, cleaned>>

\* ---- check_and_insert_urls, one iteration of the loop of lines 159-164; an
\* exception of the store leaves the loop (lines 165-166)
CheckUrl ==
    /\ pc = "dedup"
    /\ idx <= Len(article_urls)
    /\ LET url == article_urls[idx]
       IN  \/ /\ IsQuiz(url)
              /\ idx' = idx + 1
              /\ UNCHANGED <<new_urls, collection, recorded, store_error>>
           \/ /\ ~IsQuiz(url)
              /\ store_error' = store_error \cup {url}
              /\ idx' = Len(article_urls) + 1
              /\ UNCHANGED <<new_urls, collection, recorded>>
           \/ /\ ~IsQuiz(url)
              /\ FindOne(collection, url)
              /\ idx' = idx + 1
              /\ UNCHANGED <<new_urls, collection, recorded, store_error>>
           \/ /\ ~IsQuiz(url)
              /\ ~FindOne(collection, url)
              /\ new_urls' = Append(new_urls, url)
              /\ \/ /\ collection' = InsertOne(collection, url)
                    /\ recorded' = recorded \cup {url}
                    /\ idx' = idx + 1
                    /\ UNCHANGED store_error
                 \/ /\ store_error' = store_error \cup {url}
                    /\ idx' = Len(article_urls) + 1
                    /\ UNCHANGED <<collection, recorded>>
    /\ UNCHANGED <<avars, env, pc, error, page, article_urls, all_content,
                   english_titles, attempts, run, served, seen_at_call,
                   extracted, rendered, delivered, cleaned>>

\* ---- line 167 and main, lines 212-214
DedupReturns ==
    /\ pc = "dedup"
    /\ idx > Len(article_urls)
    /\ pc' = IF new_urls = <<>> THEN "done" ELSE "template"
    /\ UNCHANGED <<avars, env, error, collection, page, article_urls, idx,
                   new_urls, all_content, english_titles, attempts, run, hist>>

\* ---- main, lines 216-223: TEMPLATE_URL, download_template, Document
GetTemplate ==
    /\ pc = "template"
    /\ \/ /\ "TEMPLATE_URL" \notin env
          /\ pc' = "done" /\ error' = "ValueError: TEMPLATE_URL"
          /\ UNCHANGED <<template, doc, styles>>
       \/ /\ "TEMPLATE_URL" \in env
          /\ pc' = "done" /\ error' = "RequestException"
          /\ UNCHANGED <<template, doc, styles>>
       \/ /\ "TEMPLATE_URL" \in env
          /\ \E t \in Templates :
                 /\ template' = t.paragraphs
                 /\ doc' = t.paragraphs
                 /\ styles' = t.styles
          /\ pc' = "extract" /\ error' = error
    /\ idx' = 1
    /\ UNCHANGED <<content_list, ret, env, collection, page, article_urls,
                   new_urls, all_content, english_titles, attempts, run, hist>>

\* ---- main, one iteration of the loop of lines 227-230; content_list[0] of
\* an empty list raises IndexError
ScrapeArticle ==
    /\ pc = "extract"
    /\ idx <= Len(new_urls)
    /\ extracted' = Append(extracted, new_urls[idx])
    /\ \E pg \in ArticlePages :
          LET scraped == ScrapeAndGetContent(pg)
          IN  /\ all_content' = all_content \o scraped
              /\ IF scraped = <<>>
                 THEN /\ pc' = "done" /\ error' = "IndexError"
                      /\ UNCHANGED <<english_titles, idx>>
                 ELSE /\ english_titles' = Append(english_titles, scraped[1].text)
                      /\ idx' = idx + 1
                      /\ pc' = IF idx = Len(new_urls) THEN "assemble" ELSE "extract"
                      /\ error' = error
    /\ UNCHANGED <<avars, env, collection, page, article_urls, new_urls,
                   attempts, run, served, recorded, seen_at_call, store_error,
                   rendered, delivered, cleaned>>

\* ---- main, line 232
Assemble ==
    /\ pc = "assemble"
    /\ content_list' = all_content
    /\ LET r == InsertContent(doc, all_content, styles)
       IN  /\ doc' = r.doc
           /\ IF r.ok
              THEN ret' = "returned" /\ pc' = "render" /\ error' = error
              ELSE ret' = "raised" /\ pc' = "done" /\ error' = "assembly"
    /\ UNCHANGED <<template, styles, env, collection, page, article_urls, idx,
                   new_urls, all_content, english_titles, attempts, run, hist>>

\* ---- main, lines 234-239: doc.save and convert_docx_to_pdf
ConvertDocxToPdf ==
    /\ pc = "render"
    /\ \/ rendered' = TRUE /\ pc' = "rename" /\ error' = error
       \/ rendered' = rendered /\ pc' = "done" /\ error' = "CalledProcessError"
    /\ UNCHANGED <<avars, env, collection, page, article_urls, idx, new_urls,
                   all_content, english_titles, attempts, run, served,
                   recorded, seen_at_call, store_error, extracted, delivered,
                   cleaned>>

\* ---- main, lines 242-244: rename_pdf
RenamePdf ==
    /\ pc = "rename"
    /\ \/ pc' = "settings" /\ error' = error
       \/ pc' = "done" /\ error' = "OSError"
    /\ UNCHANGED <<avars, env, collection, page, article_urls, idx, new_urls,
                   all_content, english_titles, attempts, run, hist>>

\* ---- main, lines 246-251
CheckTelegramSettings ==
    /\ pc = "settings"
    /\ IF {"TELEGRAM_BOT_TOKEN", "TELEGRAM_CHANNEL_ID"} \subseteq env
       THEN pc' = "publish" /\ error' = error
       ELSE pc' = "done" /\ error' = "ValueError: TELEGRAM"
    /\ UNCHANGED <<avars, env, collection, page, article_urls, idx, new_urls,
                   all_content, english_titles, attempts, run, hist>>

\* ---- send_pdf_to_telegram, one iteration of the loop of lines 195-205:
\* sent (break), TimedOut (sleep, next iteration) or another error (raise);
\* when the loop ends the function returns and main goes on to line 261
SendAttempt ==
    /\ pc = "publish"
    /\ attempts < SendAttempts
    /\ attempts' = attempts + 1
    /\ \/ delivered' = TRUE /\ pc' = "cleanup" /\ error' = error
       \/ /\ delivered' = delivered
          /\ pc' = IF attempts + 1 = SendAttempts THEN "cleanup" ELSE "publish"
          /\ error' = error
       \/ delivered' = delivered /\ pc' = "done" /\ error' = "TelegramError"
    /\ UNCHANGED <<avars, env, collection, page, article_urls, idx, new_urls,
                   all_content, english_titles, run, served, recorded,
                   seen_at_call, store_error, extracted, rendered, cleaned>>

\* ---- main, lines 261-262
Cleanup ==
    /\ pc = "cleanup"
    /\ cleaned' = TRUE
    /\ pc' = "done"
    /\ UNCHANGED <<avars, env, error, collection, page, article_urls, idx,
                   new_urls, all_content, english_titles, attempts, run,
                   served, recorded, seen_at_call, store_error, extracted,
                   rendered, delivered>>

\* ---- lines 268-271: the script is started again; only the store and the
\* environment outlive a run
StartRun ==
    /\ pc = "done"
    /\ run < MaxRuns
    /\ run' = run + 1
    /\ pc' = "import" /\ error' = "none" /\ page' = 1
    /\ article_urls' = <<>> /\ idx' = 1 /\ new_urls' = <<>> /\ all_content' = <<>>
    /\ english_titles' = <<>> /\ attempts' = 0 /\ served' = <<>>
    /\ recorded' = {}
    /\ seen_at_call' = {} /\ store_error' = {} /\ extracted' = <<>>
    /\ rendered' = FALSE /\ delivered' = FALSE /\ cleaned' = FALSE
    /\ template' = <<>> /\ doc' = <<>> /\ styles' = {} /\ content_list' = <<>>
    /\ ret' = "pending"
    /\ UNCHANGED <<env, collection>>

Next ==
    \/ ImportModule
    \/ FetchPage
    \/ CheckUrl
    \/ DedupReturns
    \/ GetTemplate
    \/ ScrapeArticle
    \/ Assemble
    \/ ConvertDocxToPdf
    \/ RenamePdf
    \/ CheckTelegramSettings
    \/ SendAttempt
    \/ Cleanup
    \/ StartRun

Spec == Init /\ [][Next]_vars

\* ------------------------------------------------ claims on the assembler
\* The two sentinels insert_content_between_placeholders settles on.
Sentinels == ScanPlaceholders(template, 1, None)

\* A template with exactly one START_CONTENT paragraph and, after it, exactly
\* one END_CONTENT paragraph.
StartAt == { j \in DOMAIN template : HasStart(template[j].text) }
EndAt   == { j \in DOMAIN template : HasEnd(template[j].text) }
WellFormed ==
    /\ Cardinality(StartAt) = 1 /\ Cardinality(EndAt) = 1
    /\ Max(StartAt) < Max(EndAt)

PosOf(elem) == CHOOSE j \in DOMAIN doc : doc[j].elem = elem
IsElem(p, j) == p.elem = <<"template", j, 0>>

\* C1: after a normal return on a template with START_CONTENT at s and
\* END_CONTENT at a later e, both sentinel paragraphs have empty text and
\* every paragraph created for a block carries that block's text, whatever
\* the length of the content list.
C1_SentinelsClearedBlocksKeepText ==
    (ret = "returned" /\ WellFormed) =>
        \A j \in DOMAIN doc :
            /\ (IsElem(doc[j], Max(StartAt)) \/ IsElem(doc[j], Max(EndAt)))
                   => doc[j].text = <<>>
            /\ doc[j].elem[1] = "block"
                   => doc[j].text = content_list[doc[j].elem[2]].text

\* C5: after a normal return the paragraphs before the start sentinel and
\* after the end sentinel are those of the template, in order, text and style
\* unchanged, and nothing new stands outside the sentinel region.
C5_OutsideUnchanged ==
    (ret = "returned" /\ WellFormed) =>
        LET s == Max(StartAt)
            e == Max(EndAt)
            a == PosOf(<<"template", s, 0>>)
            b == PosOf(<<"template", e, 0>>)
        IN  /\ SubSeq(doc, 1, a - 1) = SubSeq(template, 1, s - 1)
            /\ SubSeq(doc, b + 1, Len(doc)) = SubSeq(template, e + 1, Len(template))

\* The style the paragraph of a block gets, the List Bullet fallback included.
StyleFor(b) ==
    IF b.type = "list_item" /\ "List Bullet" \notin styles THEN "Normal"
    ELSE StyleOf(b.type)

\* The paragraphs strictly between the two sentinel paragraphs are one new
\* element per block, the element of block k at the k-th place and in that
\* block's style, and no template paragraph that stood between the sentinels
\* is left in the document.
RegionElementsInOrder ==
    LET a == PosOf(<<"template", Sentinels.start, 0>>)
        b == PosOf(<<"template", Sentinels.end, 0>>)
    IN  /\ b - a - 1 = Len(content_list)
        /\ \A k \in 1..Len(content_list) :
               /\ doc[a + k].elem[1] = "block"
               /\ doc[a + k].elem[2] = k
               /\ doc[a + k].style = StyleFor(content_list[k])
        /\ \A j \in DOMAIN doc :
               doc[j].elem[1] = "template" =>
                   doc[j].elem[2] \notin (Sentinels.start + 1)..(Sentinels.end - 1)

\* The region reads as the content list does: the k-th paragraph after the
\* start sentinel has the text of block k.
RegionReadsContent ==
    LET a == PosOf(<<"template", Sentinels.start, 0>>)
    IN  \A k \in 1..Len(content_list) :
            a + k <= Len(doc) /\ doc[a + k].text = content_list[k].text

\* C6: after a successful assembly the paragraphs strictly between the two
\* sentinel paragraphs are exactly one new element per block, reading A, B, C
\* for the content list [A, B, C], and none of the template's paragraphs
\* between the sentinels remains.
C6_RegionIsContentInOrder ==
    ret = "returned" => (RegionElementsInOrder /\ RegionReadsContent)

\* No START_CONTENT paragraph, or no END_CONTENT paragraph after the first
\* START_CONTENT paragraph.
SentinelMissing ==
    \/ StartAt = {}
    \/ \A j \in EndAt : \A k \in StartAt : j <= k

\* C7: on a template without START_CONTENT, or without END_CONTENT after the
\* start sentinel, the assembler raises and leaves the document as it was.
C7_MissingSentinelRaisesUntouched ==
    (ret # "pending" /\ SentinelMissing) => (ret = "raised" /\ doc = template)

\* C7's case: END_CONTENT occurs only before START_CONTENT, the content list
\* is not empty, and the assembler has raised.
C7_Witness ==
    /\ ret = "raised"
    /\ StartAt # {} /\ EndAt # {}
    /\ \A j \in EndAt : \A k \in StartAt : j < k
    /\ content_list # <<>>

\* ------------------------------------------------- claims on the process
\* C2: when every attempt of send_pdf_to_telegram has timed out, an error
\* leaves main and the success-path cleanup is not reached.
C2_ExhaustedRetriesFail ==
    (attempts = SendAttempts /\ ~delivered /\ pc \in {"cleanup", "done"}) =>
        (pc = "done" /\ error # "none" /\ ~cleaned)

\* C3: in a run with several accepted URLs a failed extraction does not end
\* the run: once extraction has begun, the run ends only after every accepted
\* URL was extracted and the document was handed to the assembler.
C3_FailedExtractionIsLocal ==
    (pc = "done" /\ Len(new_urls) >= 2 /\ extracted # <<>>) =>
        (extracted = new_urls /\ ret # "pending")

\* C4: a URL that is in the store when check_and_insert_urls is called is
\* never in new_urls, in any run, and the store only grows.
C4_SeenUrlsNeverReselected ==
    [][ /\ collection \subseteq collection'
        /\ \A k \in DOMAIN new_urls' : new_urls'[k] \notin seen_at_call' ]_vars

\* C4's case: in a later run the listing yields a stored URL again, next to a
\* new one, and check_and_insert_urls has returned.
C4_Witness ==
    /\ run >= 2
    /\ pc = "template"
    /\ \E k \in DOMAIN article_urls : article_urls[k] \in seen_at_call
    /\ new_urls # <<>>

ConfigError ==
    error \in { "ValueError: MongoDB environment", "ValueError: TEMPLATE_URL",
                "ValueError: TELEGRAM" }

\* C8: a run that ends in a configuration error has done no pipeline work: no
\* listing page requested, no URL recorded, nothing assembled or rendered.
C8_ConfigErrorBeforeAnyWork ==
    ConfigError =>
        (served = <<>> /\ recorded = {} /\ ret = "pending" /\ ~rendered)

RECURSIVE Links(_)
Links(outcomes) ==
    IF outcomes = <<>> THEN <<>>
    ELSE Head(outcomes).links \o Links(Tail(outcomes))

\* C9: when fetch_article_urls returns, every page 1..pages has been
\* requested, a failed page has given no links, and the result is the links of
\* the other pages in page order.
C9_FailedPageSkippedOnly ==
    pc = "dedup" => (Len(served) = Pages /\ article_urls = Links(served))

\* C10: a URL at which the store raised is not in new_urls, and every URL in
\* new_urls is recorded in the store.
C10_StoreErrorSkipsUrl ==
    \A k \in DOMAIN new_urls :
        new_urls[k] \notin store_error /\ new_urls[k] \in collection

=============================================================================
